---- MODULE Spec2Model ----
(***************************************************************************)
(* A model of fd::finite_gradient, fd::finite_jacobian, fd::finite_hessian *)
(* and of the comparators fd::compare_gradient / compare_jacobian /        *)
(* compare_hessian of src/src/finitediff.cpp.                              *)
(*                                                                         *)
(* Arithmetic of the differencing engine is exact: a double is an integer, *)
(* and a quotient is kept as a fraction num/den (den = 0: the non-finite   *)
(* result of a division by zero).  The comparators work on doubles that    *)
(* are either an integer or NaN, with the IEEE rules for NaN.              *)
(***************************************************************************)
EXTENDS Integers, Sequences, FiniteSets

VARIABLES
    pc,        \* position of the call ("idle": not made yet, "returned": over)
    op,        \* the function of the last call
    x,         \* the caller's point (const Eigen::VectorXd& x)
    fn,        \* the caller's function f
    accuracy,  \* const AccuracyOrder accuracy, 0..3
    eps,       \* const double eps
    xx,        \* the working copy Eigen::VectorXd xx
    d, s,      \* loop counters of finite_gradient / finite_jacobian (0-based)
    i, j,      \* loop counters of finite_hessian (0-based)
    f1, f2, f3, f4,   \* locals of finite_hessian
    grad,      \* Eigen::VectorXd& grad
    jac,       \* Eigen::MatrixXd& jac
    hess,      \* Eigen::MatrixXd& hess
    evals,     \* history: every evaluation of f so far in the running call
    ndebug,    \* the build: TRUE when NDEBUG is defined (assert compiled out)
    cx, cy,    \* the comparator's arguments x and y
    test_eps,  \* the comparator's tolerance
    cd, cc,    \* the comparator's loop counters d and c (0-based)
    same,      \* the comparator's local `same`
    oob,       \* history: the running comparison has read y outside its shape
    logged,    \* history: number of spdlog::debug records of the running comparison
    result     \* the value the comparison returned (meaningful once pc = "returned")

engineVars == <<op, x, fn, accuracy, eps, xx, d, s, i, j, f1, f2, f3, f4, grad, jac, hess, evals>>
cmpVars == <<cx, cy, test_eps, cd, cc, same, oob, logged, result>>
vars == <<pc, engineVars, ndebug, cmpVars>>

----------------------------------------------------------------------------
(* Bounds of the model *)

MaxN == 2          \* largest number of input dimensions
MaxM == 2          \* largest number of output dimensions
MaxCmpElems == 2   \* largest number of elements of a compared vector or matrix
MaxTol == 1        \* largest comparison tolerance

XVals == {-1, 2}       \* coordinates of the point
EpsVals == {-1, 0, 2}  \* step sizes (0: the degenerate step)
CoefVals == {-1, 2}    \* parameters of the test functions

----------------------------------------------------------------------------
(* Helpers *)

RECURSIVE SumSeq(_)
SumSeq(sq) == IF sq = <<>> THEN 0 ELSE Head(sq) + SumSeq(Tail(sq))

Abs(v) == IF v < 0 THEN -v ELSE v

\* An entry of an output container: a fraction, or a value never written.
Rat(n, dn) == [set |-> TRUE, num |-> n, den |-> dn]
Unset == [set |-> FALSE, num |-> 0, den |-> 1]
RatEq(a, b) == a.set /\ b.set /\ a.den # 0 /\ b.den # 0 /\ a.num * b.den = b.num * a.den

\* Eigen::VectorXd::resize: n entries of unspecified value.
ResizedVector(n) == [k \in 1..n |-> Unset]
\* Eigen::MatrixXd::resize(rows, cols): entries of unspecified value.
ResizedMatrix(r, c) == [rows |-> r, cols |-> c, a |-> [k \in 1..r |-> [l \in 1..c |-> Unset]]]
EmptyMatrix == ResizedMatrix(0, 0)

----------------------------------------------------------------------------
(* The caller's function f.  A function is a record; its kinds are          *)
(*   affine: f_k(x) = sum_d A[k][d] * x_d + b_k, A[k][d] = p*k + q*d,       *)
(*   quad:   f_k(x) = sum_d A[k][d] * x_d^2 + b_k,                          *)
(*   sumsq:  f(x)   = sum_d x_d^2,                                          *)
(*   cubic:  f(x)   = (sum_d d*x_d)^2 + sum_d x_d^3.                        *)

MatA(f, k, l) == f.p * k + f.q * l
VecB(f, k) == 3 * k

Component(f, pt, k) ==
    CASE f.kind = "affine" -> SumSeq([l \in 1..Len(pt) |-> MatA(f, k, l) * pt[l]]) + VecB(f, k)
      [] f.kind = "quad"   -> SumSeq([l \in 1..Len(pt) |-> MatA(f, k, l) * pt[l] * pt[l]]) + VecB(f, k)
      [] f.kind = "sumsq"  -> SumSeq([l \in 1..Len(pt) |-> pt[l] * pt[l]])
      [] f.kind = "cubic"  -> SumSeq([l \in 1..Len(pt) |-> l * pt[l]]) * SumSeq([l \in 1..Len(pt) |-> l * pt[l]])
                              + SumSeq([l \in 1..Len(pt) |-> pt[l] * pt[l] * pt[l]])

\* f: R^n -> R, the argument of finite_gradient and finite_hessian
EvalScalar(f, pt) == Component(f, pt, 1)
\* f: R^n -> R^m, the argument of finite_jacobian
EvalVector(f, pt) == [k \in 1..f.m |-> Component(f, pt, k)]

ScalarFns ==
    {[kind |-> "affine", m |-> 1, p |-> p, q |-> q] : p \in CoefVals, q \in CoefVals}
    \cup {[kind |-> "sumsq", m |-> 1, p |-> 0, q |-> 0], [kind |-> "cubic", m |-> 1, p |-> 0, q |-> 0]}
VectorFns ==
    {[kind |-> kd, m |-> m, p |-> p, q |-> q] :
        kd \in {"affine", "quad"}, m \in 1..MaxM, p \in CoefVals, q \in CoefVals}

Points == UNION {[1..n -> XVals] : n \in 0..MaxN}
NoFn == [kind |-> "none", m |-> 0, p |-> 0, q |-> 0]

----------------------------------------------------------------------------
(* The stencil tables (0-based accuracy a is entry a+1) *)

Accuracies == 0..3

coeff_gradient ==
    << <<1, -1>>, <<1, -8, 8, -1>>, <<-1, 9, -45, 45, -9, 1>>,
       <<3, -32, 168, -672, 672, -168, 32, -3>> >>
\* faulty variant: a mistyped offset in the fourth-order row
coeff2_gradient_Mistyped ==
    << <<1, -1>>, <<-2, -1, 1, 3>>, <<-3, -2, -1, 1, 2, 3>>,
       <<-4, -3, -2, -1, 1, 2, 3, 4>> >>
coeff2_gradient ==
    << <<1, -1>>, <<-2, -1, 1, 2>>, <<-3, -2, -1, 1, 2, 3>>,
       <<-4, -3, -2, -1, 1, 2, 3, 4>> >>
dd_gradient == <<2, 12, 60, 840>>

coeff_jacobian ==
    << <<1, -1>>, <<1, -8, 8, -1>>, <<-1, 9, -45, 45, -9, 1>>,
       <<3, -32, 168, -672, 672, -168, 32, -3>> >>
coeff2_jacobian ==
    << <<1, -1>>, <<-2, -1, 1, 2>>, <<-3, -2, -1, 1, 2, 3>>,
       <<-4, -3, -2, -1, 1, 2, 3, 4>> >>
dd_jacobian == <<2, 12, 60, 840>>

\* faulty variant: the parentheses lost
innerSteps_NoParens(a) == 2 * a + 1
\* const size_t innerSteps = 2 * (accuracy + 1);
innerSteps(a) == 2 * (a + 1)
\* const double ddVal = dd[accuracy] * eps;
ddVal_gradient == dd_gradient[accuracy + 1] * eps
\* faulty variant: the step left out of the denominator
ddVal_jacobian_NoEps == dd_jacobian[accuracy + 1]
ddVal_jacobian == dd_jacobian[accuracy + 1] * eps

----------------------------------------------------------------------------
(* Initial state: no call has been made *)

EngineIdle ==
    /\ op = "none" /\ x = <<>> /\ fn = NoFn /\ accuracy = 0 /\ eps = 0 /\ xx = <<>>
    /\ d = 0 /\ s = 0 /\ i = 0 /\ j = 0
    /\ f1 = 0 /\ f2 = 0 /\ f3 = 0 /\ f4 = 0
    /\ grad = <<>> /\ jac = EmptyMatrix /\ hess = EmptyMatrix
    /\ evals = <<>>

CmpIdle ==
    /\ cx = <<>> /\ cy = <<>> /\ test_eps = [nan |-> FALSE, v |-> 0] /\ cd = 0 /\ cc = 0
    /\ same = TRUE /\ oob = FALSE /\ logged = 0 /\ result = FALSE

Init ==
    /\ pc = "idle"
    /\ ndebug \in BOOLEAN
    /\ EngineIdle
    /\ CmpIdle

\* The state a call starts from: the arguments, everything else as new.
StartCall(o, x0, f0, a0, e0) ==
    /\ op' = o /\ x' = x0 /\ fn' = f0 /\ accuracy' = a0 /\ eps' = e0
    /\ xx' = x0
    /\ d' = 0 /\ s' = 0 /\ i' = 0 /\ j' = 0
    /\ f1' = 0 /\ f2' = 0 /\ f3' = 0 /\ f4' = 0
    /\ UNCHANGED <<ndebug, cmpVars>>

----------------------------------------------------------------------------
(* finite_gradient *)

\* lines 34-39: grad.resize(x.rows()); innerSteps; ddVal; xx = x; d = 0
CallGradient ==
    /\ pc = "idle"
    /\ \E x0 \in Points, f0 \in ScalarFns, a0 \in Accuracies, e0 \in EpsVals :
       /\ StartCall("gradient", x0, f0, a0, e0)
       /\ grad' = ResizedVector(Len(x0))
       /\ jac' = EmptyMatrix /\ hess' = EmptyMatrix
       /\ evals' = <<>>
       /\ pc' = "g_for_d"

\* lines 40-41: d < x.rows(): grad[d] = 0; s = 0
GradBeginD ==
    /\ pc = "g_for_d" /\ d < Len(x)
    /\ grad' = [grad EXCEPT ![d + 1] = Rat(0, 1)]
    /\ s' = 0
    /\ pc' = "g_for_s"
    /\ UNCHANGED <<op, x, fn, accuracy, eps, xx, d, i, j, f1, f2, f3, f4, jac, hess, evals, ndebug, cmpVars>>

\* lines 42-43: s < innerSteps: xx[d] += coeff2[accuracy][s] * eps
GradPerturb ==
    /\ pc = "g_for_s" /\ s < innerSteps(accuracy)
    /\ xx' = [xx EXCEPT ![d + 1] = @ + coeff2_gradient[accuracy + 1][s + 1] * eps]
    /\ pc' = "g_eval"
    /\ UNCHANGED <<op, x, fn, accuracy, eps, d, s, i, j, f1, f2, f3, f4, grad, jac, hess, evals, ndebug, cmpVars>>

\* line 44: grad[d] += coeff[accuracy][s] * f(xx)
GradEval ==
    /\ pc = "g_eval"
    /\ LET v == EvalScalar(fn, xx) IN
        /\ grad' = [grad EXCEPT ![d + 1] = Rat(@.num + coeff_gradient[accuracy + 1][s + 1] * v, @.den)]
        /\ evals' = Append(evals, [tag |-> "stencil", d |-> d, s |-> s, pt |-> xx, val |-> v])
    /\ pc' = "g_restore"
    /\ UNCHANGED <<op, x, fn, accuracy, eps, xx, d, s, i, j, f1, f2, f3, f4, jac, hess, ndebug, cmpVars>>

\* faulty variant: line 45 left out, the perturbation is not undone
GradRestore_NoReset ==
    /\ pc = "g_restore"
    /\ s' = s + 1
    /\ pc' = "g_for_s"
    /\ UNCHANGED <<op, x, fn, accuracy, eps, xx, d, i, j, f1, f2, f3, f4, grad, jac, hess, evals, ndebug, cmpVars>>

\* line 45 and the loop's ++s: xx[d] = x[d]
GradRestore ==
    /\ pc = "g_restore"
    /\ xx' = [xx EXCEPT ![d + 1] = x[d + 1]]
    /\ s' = s + 1
    /\ pc' = "g_for_s"
    /\ UNCHANGED <<op, x, fn, accuracy, eps, d, i, j, f1, f2, f3, f4, grad, jac, hess, evals, ndebug, cmpVars>>

\* line 47 and the loop's d++: s == innerSteps: grad[d] /= ddVal
GradEndD ==
    /\ pc = "g_for_s" /\ ~(s < innerSteps(accuracy))
    /\ grad' = [grad EXCEPT ![d + 1] = Rat(@.num, @.den * ddVal_gradient)]
    /\ d' = d + 1
    /\ pc' = "g_for_d"
    /\ UNCHANGED <<op, x, fn, accuracy, eps, xx, s, i, j, f1, f2, f3, f4, jac, hess, evals, ndebug, cmpVars>>

\* line 49: d == x.rows(): return
GradReturn ==
    /\ pc = "g_for_d" /\ ~(d < Len(x))
    /\ pc' = "returned"
    /\ UNCHANGED <<engineVars, ndebug, cmpVars>>

----------------------------------------------------------------------------
(* finite_jacobian *)

\* A matrix with column c (1-based) replaced by col (a sequence over the rows).
WithCol(M, c, col) == [M EXCEPT !.a = [k \in 1..M.rows |-> [M.a[k] EXCEPT ![c] = col[k]]]]

\* faulty variant: the arguments of resize swapped
JacobianResize_Transposed(fx, x0) == ResizedMatrix(Len(x0), Len(fx))

\* line 71: jac.resize(f(x).rows(), x.rows())
JacobianResize(fx, x0) == ResizedMatrix(Len(fx), Len(x0))

\* lines 71-76: jac.resize(f(x).rows(), x.rows()); innerSteps; ddVal; xx = x; d = 0
CallJacobian ==
    /\ pc = "idle"
    /\ \E x0 \in Points, f0 \in VectorFns, a0 \in Accuracies, e0 \in EpsVals :
       /\ StartCall("jacobian", x0, f0, a0, e0)
       /\ LET fx == EvalVector(f0, x0) IN
           /\ jac' = JacobianResize(fx, x0)
           /\ evals' = <<[tag |-> "size", d |-> 0, s |-> 0, pt |-> x0, val |-> fx]>>
       /\ grad' = <<>> /\ hess' = EmptyMatrix
       /\ pc' = "j_for_d"

\* lines 77-78: d < x.rows(): jac.col(d).setZero(); s = 0
JacBeginD ==
    /\ pc = "j_for_d" /\ d < Len(x)
    /\ jac' = WithCol(jac, d + 1, [k \in 1..jac.rows |-> Rat(0, 1)])
    /\ s' = 0
    /\ pc' = "j_for_s"
    /\ UNCHANGED <<op, x, fn, accuracy, eps, xx, d, i, j, f1, f2, f3, f4, grad, hess, evals, ndebug, cmpVars>>

\* lines 79-80: s < innerSteps: xx[d] += coeff2[accuracy][s] * eps
JacPerturb ==
    /\ pc = "j_for_s" /\ s < innerSteps(accuracy)
    /\ xx' = [xx EXCEPT ![d + 1] = @ + coeff2_jacobian[accuracy + 1][s + 1] * eps]
    /\ pc' = "j_eval"
    /\ UNCHANGED <<op, x, fn, accuracy, eps, d, s, i, j, f1, f2, f3, f4, grad, jac, hess, evals, ndebug, cmpVars>>

\* line 81: jac.col(d) += coeff[accuracy][s] * f(xx)
JacEval ==
    /\ pc = "j_eval"
    /\ LET v == EvalVector(fn, xx) IN
        /\ jac' = WithCol(jac, d + 1,
                    [k \in 1..jac.rows |->
                        Rat(jac.a[k][d + 1].num + coeff_jacobian[accuracy + 1][s + 1] * v[k],
                            jac.a[k][d + 1].den)])
        /\ evals' = Append(evals, [tag |-> "stencil", d |-> d, s |-> s, pt |-> xx, val |-> v])
    /\ pc' = "j_restore"
    /\ UNCHANGED <<op, x, fn, accuracy, eps, xx, d, s, i, j, f1, f2, f3, f4, grad, hess, ndebug, cmpVars>>

\* line 82 and the loop's ++s: xx[d] = x[d]
JacRestore ==
    /\ pc = "j_restore"
    /\ xx' = [xx EXCEPT ![d + 1] = x[d + 1]]
    /\ s' = s + 1
    /\ pc' = "j_for_s"
    /\ UNCHANGED <<op, x, fn, accuracy, eps, d, i, j, f1, f2, f3, f4, grad, jac, hess, evals, ndebug, cmpVars>>

\* line 84 and the loop's d++: s == innerSteps: jac.col(d) /= ddVal
JacEndD ==
    /\ pc = "j_for_s" /\ ~(s < innerSteps(accuracy))
    /\ jac' = WithCol(jac, d + 1,
                [k \in 1..jac.rows |->
                    Rat(jac.a[k][d + 1].num, jac.a[k][d + 1].den * ddVal_jacobian)])
    /\ d' = d + 1
    /\ pc' = "j_for_d"
    /\ UNCHANGED <<op, x, fn, accuracy, eps, xx, s, i, j, f1, f2, f3, f4, grad, hess, evals, ndebug, cmpVars>>

\* line 86: d == x.rows(): return
JacReturn ==
    /\ pc = "j_for_d" /\ ~(d < Len(x))
    /\ pc' = "returned"
    /\ UNCHANGED <<engineVars, ndebug, cmpVars>>

----------------------------------------------------------------------------
(* finite_hessian *)

\* lines 95-97: hess.resize(x.rows(), x.rows()); xx = x; i = 0 (and j = 0)
CallHessian ==
    /\ pc = "idle"
    /\ \E x0 \in Points, f0 \in ScalarFns, e0 \in EpsVals :
       /\ StartCall("hessian", x0, f0, 0, e0)
       /\ hess' = ResizedMatrix(Len(x0), Len(x0))
       /\ grad' = <<>> /\ jac' = EmptyMatrix
       /\ evals' = <<>>
       /\ pc' = "h_for"

\* lines 98-100: i < x.rows(), j < x.rows(): double f4 = f(xx)
HessF4 ==
    /\ pc = "h_for" /\ i < Len(x) /\ j < Len(x)
    /\ f4' = EvalScalar(fn, xx)
    /\ evals' = Append(evals, [tag |-> "f4", d |-> i, s |-> j, pt |-> xx, val |-> f4'])
    /\ pc' = "h_f1"
    /\ UNCHANGED <<op, x, fn, accuracy, eps, xx, d, s, i, j, f1, f2, f3, grad, jac, hess, ndebug, cmpVars>>

\* lines 101-103: xx[i] += eps; xx[j] += eps; double f1 = f(xx)
HessF1 ==
    /\ pc = "h_f1"
    /\ LET xa == [xx EXCEPT ![i + 1] = @ + eps]
           xb == [xa EXCEPT ![j + 1] = @ + eps] IN
        /\ xx' = xb
        /\ f1' = EvalScalar(fn, xb)
        /\ evals' = Append(evals, [tag |-> "f1", d |-> i, s |-> j, pt |-> xb, val |-> f1'])
    /\ pc' = "h_f2"
    /\ UNCHANGED <<op, x, fn, accuracy, eps, d, s, i, j, f2, f3, f4, grad, jac, hess, ndebug, cmpVars>>

\* lines 104-105: xx[j] -= eps; double f2 = f(xx)
HessF2 ==
    /\ pc = "h_f2"
    /\ LET xa == [xx EXCEPT ![j + 1] = @ - eps] IN
        /\ xx' = xa
        /\ f2' = EvalScalar(fn, xa)
        /\ evals' = Append(evals, [tag |-> "f2", d |-> i, s |-> j, pt |-> xa, val |-> f2'])
    /\ pc' = "h_f3"
    /\ UNCHANGED <<op, x, fn, accuracy, eps, d, s, i, j, f1, f3, f4, grad, jac, hess, ndebug, cmpVars>>

\* faulty variant: line 106 left out, f3 is evaluated without moving j back
HessF3_NoJ ==
    /\ pc = "h_f3"
    /\ LET xb == [xx EXCEPT ![i + 1] = @ - eps] IN
        /\ xx' = xb
        /\ f3' = EvalScalar(fn, xb)
        /\ evals' = Append(evals, [tag |-> "f3", d |-> i, s |-> j, pt |-> xb, val |-> f3'])
    /\ pc' = "h_set"
    /\ UNCHANGED <<op, x, fn, accuracy, eps, d, s, i, j, f1, f2, f4, grad, jac, hess, ndebug, cmpVars>>

\* lines 106-108: xx[j] += eps; xx[i] -= eps; double f3 = f(xx)
HessF3 ==
    /\ pc = "h_f3"
    /\ LET xa == [xx EXCEPT ![j + 1] = @ + eps]
           xb == [xa EXCEPT ![i + 1] = @ - eps] IN
        /\ xx' = xb
        /\ f3' = EvalScalar(fn, xb)
        /\ evals' = Append(evals, [tag |-> "f3", d |-> i, s |-> j, pt |-> xb, val |-> f3'])
    /\ pc' = "h_set"
    /\ UNCHANGED <<op, x, fn, accuracy, eps, d, s, i, j, f1, f2, f4, grad, jac, hess, ndebug, cmpVars>>

\* faulty variant: the second difference divided by eps, not eps * eps
HessSet_DivEps ==
    /\ pc = "h_set"
    /\ hess' = [hess EXCEPT !.a[i + 1][j + 1] = Rat(f1 - f2 - f3 + f4, eps)]
    /\ pc' = "h_restore"
    /\ UNCHANGED <<op, x, fn, accuracy, eps, xx, d, s, i, j, f1, f2, f3, f4, grad, jac, evals, ndebug, cmpVars>>

\* line 109: hess(i, j) = (f1 - f2 - f3 + f4) / (eps * eps)
HessSet ==
    /\ pc = "h_set"
    /\ hess' = [hess EXCEPT !.a[i + 1][j + 1] = Rat(f1 - f2 - f3 + f4, eps * eps)]
    /\ pc' = "h_restore"
    /\ UNCHANGED <<op, x, fn, accuracy, eps, xx, d, s, i, j, f1, f2, f3, f4, grad, jac, evals, ndebug, cmpVars>>

\* faulty variant: line 112 left out, only coordinate i is restored
HessRestore_OnlyI ==
    /\ pc = "h_restore"
    /\ xx' = [xx EXCEPT ![i + 1] = x[i + 1]]
    /\ j' = j + 1
    /\ pc' = "h_for"
    /\ UNCHANGED <<op, x, fn, accuracy, eps, d, s, i, f1, f2, f3, f4, grad, jac, hess, evals, ndebug, cmpVars>>

\* lines 111-112 and the loop's j++: xx[i] = x[i]; xx[j] = x[j]
HessRestore ==
    /\ pc = "h_restore"
    /\ xx' = [[xx EXCEPT ![i + 1] = x[i + 1]] EXCEPT ![j + 1] = x[j + 1]]
    /\ j' = j + 1
    /\ pc' = "h_for"
    /\ UNCHANGED <<op, x, fn, accuracy, eps, d, s, i, f1, f2, f3, f4, grad, jac, hess, evals, ndebug, cmpVars>>

\* lines 98-99: j == x.rows(): the inner loop ends; i++, j = 0
HessNextI ==
    /\ pc = "h_for" /\ i < Len(x) /\ ~(j < Len(x))
    /\ i' = i + 1
    /\ j' = 0
    /\ UNCHANGED <<pc, op, x, fn, accuracy, eps, xx, d, s, f1, f2, f3, f4, grad, jac, hess, evals, ndebug, cmpVars>>

\* line 115: i == x.rows(): return
HessReturn ==
    /\ pc = "h_for" /\ ~(i < Len(x))
    /\ pc' = "returned"
    /\ UNCHANGED <<engineVars, ndebug, cmpVars>>

----------------------------------------------------------------------------
EngineNext ==
    \/ CallGradient \/ GradBeginD \/ GradPerturb \/ GradEval \/ GradRestore
    \/ GradEndD \/ GradReturn
    \/ CallJacobian \/ JacBeginD \/ JacPerturb \/ JacEval \/ JacRestore
    \/ JacEndD \/ JacReturn
    \/ CallHessian \/ HessF4 \/ HessF1 \/ HessF2 \/ HessF3 \/ HessSet
    \/ HessRestore \/ HessNextI \/ HessReturn

Next == EngineNext

Spec == Init /\ [][Next]_vars

----------------------------------------------------------------------------
(* Properties of the differencing engine (checked under Spec) *)

Coeff(o) == IF o = "gradient" THEN coeff_gradient ELSE coeff_jacobian
Coeff2(o) == IF o = "gradient" THEN coeff2_gradient ELSE coeff2_jacobian
Dd(o) == IF o = "gradient" THEN dd_gradient ELSE dd_jacobian

\* the point x with coordinate k (1-based) moved by e
Moved(pt, k, e) == [pt EXCEPT ![k] = @ + e]

C3_RowsAreInputs ==
    (op = "jacobian" /\ pc = "returned") => (jac.rows = Len(x) /\ jac.cols = fn.m)

\* C3 amended: the Jacobian has m rows (the length of f(x)) and n columns (the
\* length of x), from the resize on.
C3_RowsAreOutputs ==
    (op = "jacobian") =>
        /\ jac.rows = Len(EvalVector(fn, x)) /\ jac.cols = Len(x)
        /\ Len(jac.a) = jac.rows
        /\ \A k \in 1..jac.rows : Len(jac.a[k]) = jac.cols

C3_Witness ==
    /\ op = "jacobian" /\ pc = "returned" /\ Len(x) = 2 /\ fn.m = 1
    /\ jac.rows = 1 /\ jac.cols = 2

\* the evaluations of pair (i0, j0) (0-based) in the history of finite_hessian
HessEval(i0, j0, k) == evals[4 * (i0 * Len(x) + j0) + k]

\* C4: finite_hessian evaluates f, for every ordered pair (i, j), at x, at x with
\* i and j moved by eps, at x with i moved, at x with j moved, sets hess(i, j) to
\* (f(x+ei+ej) - f(x+ei) - f(x+ej) + f(x)) / eps^2, and evaluates f 4*n^2 times.
C4_FourPoints ==
    (op = "hessian" /\ pc = "returned") =>
        /\ Len(evals) = 4 * Len(x) * Len(x)
        /\ hess.rows = Len(x) /\ hess.cols = Len(x)
        /\ \A i0 \in 0..(Len(x) - 1) : \A j0 \in 0..(Len(x) - 1) :
            LET xi == Moved(x, i0 + 1, eps)
                xj == Moved(x, j0 + 1, eps)
                xij == Moved(xi, j0 + 1, eps)
            IN
            /\ \A k \in 1..4 : HessEval(i0, j0, k).d = i0 /\ HessEval(i0, j0, k).s = j0
            /\ HessEval(i0, j0, 1).tag = "f4" /\ HessEval(i0, j0, 1).pt = x
            /\ HessEval(i0, j0, 2).tag = "f1" /\ HessEval(i0, j0, 2).pt = xij
            /\ HessEval(i0, j0, 3).tag = "f2" /\ HessEval(i0, j0, 3).pt = xi
            /\ HessEval(i0, j0, 4).tag = "f3" /\ HessEval(i0, j0, 4).pt = xj
            /\ hess.a[i0 + 1][j0 + 1] =
                   Rat(EvalScalar(fn, xij) - EvalScalar(fn, xi) - EvalScalar(fn, xj)
                       + EvalScalar(fn, x), eps * eps)

C4_Witness ==
    /\ op = "hessian" /\ pc = "returned" /\ Len(x) = 2 /\ eps = 2 /\ fn.kind = "cubic"
    /\ Len(evals) = 16

\* the two identities that make a stencil exact on affine functions
StencilSums ==
    \A o \in {"gradient", "jacobian"} : \A a \in Accuracies :
        /\ SumSeq(Coeff(o)[a + 1]) = 0
        /\ SumSeq([k \in 1..Len(Coeff(o)[a + 1]) |-> Coeff(o)[a + 1][k] * Coeff2(o)[a + 1][k]])
               = Dd(o)[a + 1]
        /\ Dd(o) = <<2, 12, 60, 840>>

\* C6: for an affine f and eps # 0, finite_jacobian returns jac(k, d) = A[k][d]
\* and finite_gradient returns grad[d] = A[1][d], for every accuracy; for each
\* order the outer coefficients sum to 0 and sum of outer*inner is the
\* denominator 2, 12, 60, 840.
C6_AffineExact ==
    /\ StencilSums
    /\ (pc = "returned" /\ fn.kind = "affine" /\ eps # 0) =>
        /\ (op = "jacobian") =>
              \A k \in 1..fn.m : \A l \in 1..Len(x) :
                  RatEq(jac.a[k][l], Rat(MatA(fn, k, l), 1))
        /\ (op = "gradient") =>
              \A l \in 1..Len(x) : RatEq(grad[l], Rat(MatA(fn, 1, l), 1))

C6_Witness ==
    /\ pc = "returned" /\ op = "jacobian" /\ fn.kind = "affine" /\ fn.m = 2
    /\ Len(x) = 2 /\ accuracy = 3 /\ eps = -1
    /\ jac.a[2][1].num # 0

\* C7: for f(x) = sum of x_i^2 and eps # 0, finite_hessian returns 2*I: 2 on the
\* diagonal, 0 elsewhere.
C7_SumSqHessian ==
    (op = "hessian" /\ pc = "returned" /\ fn.kind = "sumsq" /\ eps # 0) =>
        \A k \in 1..Len(x) : \A l \in 1..Len(x) :
            RatEq(hess.a[k][l], Rat(IF k = l THEN 2 ELSE 0, 1))

C7_Witness ==
    /\ op = "hessian" /\ pc = "returned" /\ fn.kind = "sumsq" /\ eps = -1
    /\ Len(x) = 2 /\ x[1] # x[2]

\* the stencil evaluation of dimension d0, step s0 (0-based) in the history,
\* `first` evaluations having come before the stencil loops
StencilEval(first, d0, s0) == evals[first + d0 * 2 * (accuracy + 1) + s0 + 1]

\* C8: finite_gradient evaluates f n*2*(a+1) times; finite_jacobian evaluates f
\* n*2*(a+1) + 1 times, the first time at the unperturbed x, and no entry of the
\* result depends on that first value: every entry is the weighted sum of the
\* stencil evaluations over the denominator.
C8_EvaluationCount ==
    (pc = "returned") =>
        /\ (op = "gradient") =>
            /\ Len(evals) = Len(x) * 2 * (accuracy + 1)
            /\ \A k \in 1..Len(evals) : evals[k].tag = "stencil"
        /\ (op = "jacobian") =>
            /\ Len(evals) = Len(x) * 2 * (accuracy + 1) + 1
            /\ evals[1].tag = "size" /\ evals[1].pt = x
            /\ jac.rows = Len(evals[1].val)
            /\ \A k \in 2..Len(evals) : evals[k].tag = "stencil"
            /\ \A k \in 1..jac.rows : \A l \in 1..jac.cols :
                jac.a[k][l] =
                    Rat(SumSeq([s0 \in 1..(2 * (accuracy + 1)) |->
                                   coeff_jacobian[accuracy + 1][s0] * StencilEval(1, l - 1, s0 - 1).val[k]]),
                        dd_jacobian[accuracy + 1] * eps)

C8_Witness ==
    /\ pc = "returned" /\ op = "jacobian" /\ Len(x) = 2 /\ accuracy = 1 /\ Len(evals) = 9
    /\ fn.kind = "quad"

\* lengths, no zero offset, offsets symmetric around zero
TablesWellFormed ==
    \A o \in {"gradient", "jacobian"} : \A a \in Accuracies :
        /\ Len(Coeff(o)[a + 1]) = 2 * (a + 1)
        /\ Len(Coeff2(o)[a + 1]) = 2 * (a + 1)
        /\ \A k \in 1..Len(Coeff2(o)[a + 1]) :
            /\ Coeff2(o)[a + 1][k] # 0
            /\ \E l \in 1..Len(Coeff2(o)[a + 1]) : Coeff2(o)[a + 1][l] = -Coeff2(o)[a + 1][k]

\* C9: for each accuracy a the outer and inner arrays of both functions have
\* length 2*(a+1), no inner offset is 0, the inner offsets are symmetric around
\* 0, and the stencil loop indexes both arrays inside their bounds.
C9_StencilTables ==
    /\ TablesWellFormed
    /\ (pc \in {"g_eval", "g_restore", "j_eval", "j_restore"}) =>
        /\ accuracy + 1 \in DOMAIN Coeff(op) /\ accuracy + 1 \in DOMAIN Coeff2(op)
        /\ s + 1 \in DOMAIN Coeff(op)[accuracy + 1]
        /\ s + 1 \in DOMAIN Coeff2(op)[accuracy + 1]

C9_Witness == pc = "j_eval" /\ accuracy = 3 /\ s = 7 /\ d = 1

\* C10: the caller's x is not modified during a call, and the working copy xx
\* equals x at the start of every iteration over a dimension d (and of every
\* stencil step) of finite_gradient and finite_jacobian, at the start of every
\* pair (i, j) of finite_hessian, and on return.
C10_Restored ==
    /\ [](pc \in {"g_for_d", "g_for_s", "j_for_d", "j_for_s", "h_for"}
            \/ (pc = "returned" /\ op \in {"gradient", "jacobian", "hessian"})
          => xx = x)
    /\ [][pc # "idle" => x' = x]_vars

C10_Witness ==
    /\ op = "hessian" /\ pc = "h_for" /\ Len(x) = 2 /\ i = 1 /\ j = 1 /\ eps = 2
    /\ xx = x

----------------------------------------------------------------------------
(* Doubles of the comparators: an integer or NaN *)

D(v) == [nan |-> FALSE, v |-> v]
NaN == [nan |-> TRUE, v |-> 0]

DSub(a, b) == IF a.nan \/ b.nan THEN NaN ELSE D(a.v - b.v)
DMul(a, b) == IF a.nan \/ b.nan THEN NaN ELSE D(a.v * b.v)
\* abs
DAbs(a) == IF a.nan THEN NaN ELSE D(Abs(a.v))
\* a < b, a > b, a <= b: false when an operand is NaN
DLess(a, b) == ~a.nan /\ ~b.nan /\ a.v < b.v
DGreater(a, b) == ~a.nan /\ ~b.nan /\ a.v > b.v
DLeq(a, b) == ~a.nan /\ ~b.nan /\ a.v <= b.v
\* std::max(a, b): (a < b) ? b : a
StdMax(a, b) == IF DLess(a, b) THEN b ELSE a

CmpVals == {D(-2), D(1), NaN}
Tols == {D(t) : t \in 0..MaxTol}
CmpVectors == UNION {[1..n -> CmpVals] : n \in 0..MaxCmpElems}
CmpShapes ==
    {sh \in (0..MaxCmpElems) \X (0..MaxCmpElems) : sh[1] * sh[2] <= MaxCmpElems}
CmpMatrices ==
    UNION {{[rows |-> sh[1], cols |-> sh[2], a |-> m] :
               m \in [1..sh[1] -> [1..sh[2] -> CmpVals]]} : sh \in CmpShapes}

\* assert(cond): nothing when NDEBUG is defined, else abort() when cond is false
AssertPasses(cond) == ndebug \/ cond

\* lines 128-131 (and 156-161): the test of one pair of elements
\*   scale = std::max(std::max(abs(x), abs(y)), double(1.0));
\*   abs_diff = abs(x - y);  abs_diff > test_eps * scale
PairFails(xv, yv, tol) ==
    LET scale == StdMax(StdMax(DAbs(xv), DAbs(yv)), D(1))
        abs_diff == DAbs(DSub(xv, yv))
    IN DGreater(abs_diff, DMul(tol, scale))

\* The state a comparison starts from.
StartCompare(o, x0, y0, tol) ==
    /\ op' = o /\ cx' = x0 /\ cy' = y0 /\ test_eps' = tol
    /\ cd' = 0 /\ cc' = 0 /\ same' = TRUE /\ oob' = FALSE /\ logged' = 0
    /\ result' = FALSE
    /\ UNCHANGED <<x, fn, accuracy, eps, xx, d, s, i, j, f1, f2, f3, f4, grad, jac, hess, evals, ndebug>>

----------------------------------------------------------------------------
(* compare_gradient *)

\* lines 124-127: assert(x.rows() == y.rows()); bool same = true; d = 0
CallCompareGradient ==
    /\ pc = "idle"
    /\ \E x0 \in CmpVectors, y0 \in CmpVectors, tol \in Tols :
       /\ StartCompare("compare_gradient", x0, y0, tol)
       /\ pc' = IF AssertPasses(Len(x0) = Len(y0)) THEN "cg_for_d" ELSE "aborted"

\* lines 127-138 and the loop's ++d: one element pair.  y[d] outside y is a read
\* outside the vector: any value.
CmpGradStep ==
    /\ pc = "cg_for_d" /\ cd < Len(cx)
    /\ \E yv \in (IF cd < Len(cy) THEN {cy[cd + 1]} ELSE CmpVals) :
       /\ same' = IF PairFails(cx[cd + 1], yv, test_eps) THEN FALSE ELSE same
       /\ logged' = IF PairFails(cx[cd + 1], yv, test_eps) THEN logged + 1 ELSE logged
    /\ oob' = (oob \/ ~(cd < Len(cy)))
    /\ cd' = cd + 1
    /\ UNCHANGED <<pc, engineVars, ndebug, cx, cy, test_eps, cc, result>>

\* line 140: return same
CmpGradReturn ==
    /\ pc = "cg_for_d" /\ ~(cd < Len(cx))
    /\ result' = same
    /\ pc' = "returned"
    /\ UNCHANGED <<engineVars, ndebug, cx, cy, test_eps, cd, cc, same, oob, logged>>

----------------------------------------------------------------------------
(* compare_jacobian, and compare_hessian, which only calls it *)

\* lines 150-154: assert(x.rows() == y.rows()); assert(x.cols() == y.cols());
\* bool same = true; d = 0
EnterCompareJacobian(o) ==
    \E x0 \in CmpMatrices, y0 \in CmpMatrices, tol \in Tols :
        /\ StartCompare(o, x0, y0, tol)
        /\ pc' = IF AssertPasses(x0.rows = y0.rows) /\ AssertPasses(x0.cols = y0.cols)
                 THEN "cj_for_d" ELSE "aborted"

CallCompareJacobian ==
    /\ pc = "idle"
    /\ EnterCompareJacobian("compare_jacobian")

\* line 181: return compare_jacobian(x, y, test_eps, msg)
CallCompareHessian ==
    /\ pc = "idle"
    /\ EnterCompareJacobian("compare_hessian")

\* lines 155-169 and the loop's ++c: one element pair.  y(d, c) outside y's shape
\* is a read of another element or outside the matrix: any value.
CmpJacStep ==
    /\ pc = "cj_for_d" /\ cd < cx.rows /\ cc < cx.cols
    /\ LET inside == cd < cy.rows /\ cc < cy.cols IN
       /\ \E yv \in (IF inside THEN {cy.a[cd + 1][cc + 1]} ELSE CmpVals) :
          /\ same' = IF PairFails(cx.a[cd + 1][cc + 1], yv, test_eps) THEN FALSE ELSE same
          /\ logged' = IF PairFails(cx.a[cd + 1][cc + 1], yv, test_eps) THEN logged + 1 ELSE logged
       /\ oob' = (oob \/ ~inside)
    /\ cc' = cc + 1
    /\ UNCHANGED <<pc, engineVars, ndebug, cx, cy, test_eps, cd, result>>

\* lines 154-155: c == x.cols(): the inner loop ends; ++d, c = 0
CmpJacNextRow ==
    /\ pc = "cj_for_d" /\ cd < cx.rows /\ ~(cc < cx.cols)
    /\ cd' = cd + 1
    /\ cc' = 0
    /\ UNCHANGED <<pc, engineVars, ndebug, cx, cy, test_eps, same, oob, logged, result>>

\* line 171: d == x.rows(): return same
CmpJacReturn ==
    /\ pc = "cj_for_d" /\ ~(cd < cx.rows)
    /\ result' = same
    /\ pc' = "returned"
    /\ UNCHANGED <<engineVars, ndebug, cx, cy, test_eps, cd, cc, same, oob, logged>>

CmpNext ==
    \/ CallCompareGradient \/ CmpGradStep \/ CmpGradReturn
    \/ CallCompareJacobian \/ CallCompareHessian
    \/ CmpJacStep \/ CmpJacNextRow \/ CmpJacReturn

SpecCmp == Init /\ [][CmpNext]_vars

----------------------------------------------------------------------------
(* Properties of the comparators (checked under SpecCmp) *)

VectorCompare == op = "compare_gradient"
MatrixCompare == op \in {"compare_jacobian", "compare_hessian"}

SameShape ==
    IF VectorCompare THEN Len(cx) = Len(cy)
    ELSE cx.rows = cy.rows /\ cx.cols = cy.cols

\* |xi - yi| <= tolerance * max(|xi|, |yi|, 1), as a statement about doubles
CloseEnough(xv, yv, tol) ==
    LET scale == IF xv.nan \/ yv.nan THEN NaN
                 ELSE D(IF Abs(xv.v) >= Abs(yv.v) /\ Abs(xv.v) >= 1 THEN Abs(xv.v)
                        ELSE IF Abs(yv.v) >= 1 THEN Abs(yv.v) ELSE 1)
    IN DLeq(DAbs(DSub(xv, yv)), DMul(tol, scale))

AllClose ==
    IF VectorCompare THEN \A k \in 1..Len(cx) : CloseEnough(cx[k], cy[k], test_eps)
    ELSE \A k \in 1..cx.rows : \A l \in 1..cx.cols :
             CloseEnough(cx.a[k][l], cy.a[k][l], test_eps)

NoNaN ==
    IF VectorCompare THEN \A k \in 1..Len(cx) : ~cx[k].nan /\ ~cy[k].nan
    ELSE \A k \in 1..cx.rows : \A l \in 1..cx.cols : ~cx.a[k][l].nan /\ ~cy.a[k][l].nan

\* C2: on equal shapes the comparators return true if and only if every pair
\* (xi, yi) satisfies |xi - yi| <= tolerance * max(|xi|, |yi|, 1).
C2_TrueIffAllClose ==
    (pc = "returned" /\ (VectorCompare \/ MatrixCompare) /\ SameShape) =>
        (result <=> AllClose)

\* What holds of C2: the same, for inputs without NaN.
C2_FiniteInputs ==
    (pc = "returned" /\ (VectorCompare \/ MatrixCompare) /\ SameShape /\ NoNaN) =>
        (result <=> AllClose)

\* What holds of C2: within a comparison `same` never goes back to true.
C2_NeverReset == [][(pc # "idle" /\ ~same) => ~same']_vars

\* C5: with shapes that differ a comparison fails fast in every build: it
\* examines no element, reads nothing outside y and returns no verdict.
C5_FailsFast ==
    ((VectorCompare \/ MatrixCompare) /\ ~SameShape) =>
        (cd = 0 /\ cc = 0 /\ ~oob /\ pc # "returned")

\* What holds of C5: in a build without NDEBUG the call stops at the assertion.
C5_DebugBuild ==
    ((VectorCompare \/ MatrixCompare) /\ ~SameShape /\ ~ndebug) =>
        (pc = "aborted" /\ cd = 0 /\ cc = 0 /\ ~oob)

====
